---- MODULE Spec2Model ----
(***************************************************************************)
(* Model of the correlation-context engine of prelude-correlator           *)
(* (preludecorrelator/context.py): the polled Timer, the Context with its  *)
(* time window, the registry _CONTEXT_TABLE, the scheduler list            *)
(* _TIMER_LIST and wakeup().                                               *)
(*                                                                         *)
(* Time is integral.  None is written 0 for _timer_start (time.time() is   *)
(* never 0) and 0 for "no context".  A Python str is a sequence of         *)
(* one-character strings.  An exception is the flag exc of the running     *)
(* call's state record: once set, the rest of the call is skipped unless   *)
(* a try/except of the code catches it.                                    *)
(***************************************************************************)
EXTENDS Integers, Sequences, FiniteSets, TLC

\* ---------------------------------------------------------------- bounds
\* the clock stops at MaxTime, and at RegTime in the registry's specification
MaxTime == 3
\* the expire options reach MaxExpire
MaxExpire == 2
\* the length of _TIMER_LIST, which grows with every start of a stopped timer
MaxList == 3
\* the callback invocations counted for one arming of a timer
MaxFires == 2
\* the plain Timers
MaxTimers == 2
\* by specification: the objects there are at a time (the collected ones
\* apart), the contexts of the registry at a time, and the update count
SchedObjs == 2
SchedLive == 1
SchedUpdates == 1
RegObjs == 3
RegLive == 2
RegUpdates == 1
RegTime == 2
\* the updates of a context that is driven to the hard cap
CapUpdates == 256
\* the updates of a context whose rules only create
ScanUpdates == 0
\* the values assigned to a memoize_property, and the reads of it
MaxValue == 3
MaxReads == 5
\* the contexts of a saved registry
MaxStored == 3
\* the longest component of a name, and the longest name given as one str
MaxComponent == 2
MaxStr == 3
\* the largest edge of a window handed to _intersect on its own
MaxWindow == 3
\* ------------------------------------------------------- program constants
\* sys.maxsize; the largest integer of the model checker stands for it.
MaxSize == 2147483647
\* _IDMEF_QUEUE_LIMIT
QueueLimit == 256
\* Context.FORMAT_VERSION = 0.2, in tenths
FormatVersion == 2
\* the format version of a context an older build saved, in tenths
OldVersion == 1

None == 0

VARIABLES
    clock,       \* time.time()
    obj,         \* the Timer and Context objects, by id; an id is free or in use
    table,       \* _CONTEXT_TABLE: name -> list of context ids
    timerList,   \* _TIMER_LIST
    nextWakeup,  \* _next_wakeup
    lastWakeup,  \* _last_wakeup
    hist,        \* per object: what was observed of it (history)
    log,         \* what the last call did, in order (history)
    call,        \* the last call and its outcome (history)
    memo         \* utils/cache.py: an object with a memoize_property, its _Cache

vars == <<clock, obj, table, timerList, nextWakeup, lastWakeup, hist, log, call, memo>>

\* ---------------------------------------------------------------- helpers
\* no object with a memoize_property
NoMemo == <<>>

Min(a, b) == IF a <= b THEN a ELSE b

Max(a, b) == IF a >= b THEN a ELSE b

\* list.remove(x): drops the first occurrence
RECURSIVE RemoveFirst(_, _)
RemoveFirst(seq, x) ==
    IF seq = <<>> THEN <<>>
    ELSE IF Head(seq) = x THEN Tail(seq)
    ELSE <<Head(seq)>> \o RemoveFirst(Tail(seq), x)

InSeq(seq, x) == \E k \in 1..Len(seq) : seq[k] = x

Count(seq, x) == Cardinality({k \in 1..Len(seq) : seq[k] = x})

\* [x for x in seq if keep]
RECURSIVE Running(_, _)
Running(seq, o) ==
    IF seq = <<>> THEN <<>>
    ELSE IF o[Head(seq)].timer_start # None
         THEN <<Head(seq)>> \o Running(Tail(seq), o)
         ELSE Running(Tail(seq), o)

Raise(s, what) == [s EXCEPT !.exc = TRUE, !.log = Append(@, <<"raise", what>>)]

Note(s, entry) == [s EXCEPT !.log = Append(@, entry)]

\* ------------------------------------------------------------------ names
\* escape(s): s.replace("_", "\\_")
RECURSIVE Escape(_)
Escape(str) ==
    IF str = <<>> THEN <<>>
    ELSE IF Head(str) = "_" THEN <<"\\", "_">> \o Escape(Tail(str))
    ELSE <<Head(str)>> \o Escape(Tail(str))

\* getName(arg) for a str argument
GetNameStr(str) == Escape(str)

\* getName(arg) for an argument that is not a str: the escaped components,
\* joined with "_"
RECURSIVE GetNameSeq(_)
GetNameSeq(arg) ==
    IF arg = <<>> THEN <<>>
    ELSE IF Len(arg) = 1 THEN Escape(arg[1])
    ELSE GetNameSeq(SubSeq(arg, 1, Len(arg) - 1)) \o <<"_">> \o Escape(arg[Len(arg)])

\* "%s_%s" % (name, value)
Format(name, value) == name \o <<"_">> \o value

\* ------------------------------------------------------------------ Timer
TimerStop(s, i) == [s EXCEPT !.obj[i].timer_start = None]

TimerStart(s, i, reset) ==
    LET o == s.obj[i]
    IN  IF o.timer_expire = 0 \/ (o.timer_start # None /\ ~reset) THEN s
        ELSE [s EXCEPT !.timerList = IF ~reset THEN Append(@, i) ELSE @,
                       !.obj[i].timer_start = s.clock,
                       !.nextWakeup = Min(@, o.timer_expire),
                       !.hist[i].fires = 0]

TimerReset(s, i) == TimerStart(s, i, TRUE)

TimerSetExpire(s, i, expire) == [s EXCEPT !.obj[i].timer_expire = expire]

\* The callback handed to a plain Timer, by what it does with the timer.
TimerCb(s, i) ==
    LET s1 == [Note(s, <<"cb", i>>) EXCEPT !.hist[i].fires = @ + 1]
        kind == s.obj[i].timer_cb
    IN  IF kind = "Raise" THEN Raise(s1, "callback")
        ELSE IF kind = "Start" THEN TimerStart(s1, i, FALSE)
        ELSE IF kind = "Reset" THEN TimerReset(s1, i)
        ELSE s1

\* Timer._timerExpireCallback
TimerExpireCallback(s, i) ==
    LET s1 == TimerStop(s, i)
        s2 == TimerCb(s1, i)
    IN  IF s2.exc THEN [s2 EXCEPT !.exc = FALSE, !.log = Append(@, <<"caught", i>>)]
        ELSE s2

\* ---------------------------------------------------------------- Context
\* Context.destroy without the pop of the emptied bucket
DestroyKeepsBucket(s, i) ==
    LET s1 == [Note(TimerStop(s, i), <<"destroy", i>>)
                 EXCEPT !.hist[i].destroyed = TRUE]
        name == s.obj[i].name
    IN  IF name \notin DOMAIN s1.table THEN Raise(s1, "KeyError")
        ELSE IF ~InSeq(s1.table[name], i) THEN Raise(s1, "ValueError")
        ELSE [s1 EXCEPT !.table[name] = RemoveFirst(s1.table[name], i)]

\* Context.destroy
Destroy(s, i) ==
    LET s1 == [Note(TimerStop(s, i), <<"destroy", i>>)
                 EXCEPT !.hist[i].destroyed = TRUE]
        name == s.obj[i].name
    IN  IF name \notin DOMAIN s1.table THEN Raise(s1, "KeyError")
        ELSE IF ~InSeq(s1.table[name], i) THEN Raise(s1, "ValueError")
        ELSE LET rest == RemoveFirst(s1.table[name], i)
             IN  IF rest = <<>>
                 THEN [s1 EXCEPT !.table = [n \in DOMAIN s1.table \ {name} |-> s1.table[n]]]
                 ELSE [s1 EXCEPT !.table[name] = rest]

\* Context._getTime: the event's time, or time.time()
GetTime(s, ev) == IF ev.some THEN ev.time ELSE s.clock

\* the test of Context._intersect on the window [itmin, itmax]:
\* the widened window, or <<>> for None
IntersectWindow(o, itmin, itmax) ==
    IF \/ (itmin <= o.time_min /\ (o.time_max = -1 \/ itmax >= o.time_min))
       \/ (itmin >= o.time_min /\ (o.time_max = -1 \/ itmin <= o.time_max))
    THEN <<Min(itmin, o.time_min), Max(itmax, o.time_max)>>
    ELSE <<>>

\* Context._intersect(ctx)
IntersectCtx(o, other) == IntersectWindow(o, other.time_min, other.time_max)

\* Context._intersect(idmef)
IntersectEvent(s, o, ev) ==
    LET itime == GetTime(s, ev)
    IN  IntersectWindow(o, itime - o.options.expire, itime + o.options.expire)

\* Context.merge without the assignment of _time_min
MergeKeepsMin(s, i, j) ==
    LET a == s.obj[i]
        b == s.obj[j]
        s1 == [Note(s, <<"merge", i, j, a.time_min, a.time_max, a.update_count,
                                b.time_min, b.time_max, b.update_count>>)
                 EXCEPT !.obj[i].update_count = a.update_count + b.update_count,
                        !.obj[i].refs = a.refs + b.refs,
                        !.obj[i].time_max = Max(a.time_max, b.time_max)]
    IN  Destroy(s1, j)

\* Context.merge without the assignment of _time_max
MergeKeepsMax(s, i, j) ==
    LET a == s.obj[i]
        b == s.obj[j]
        s1 == [Note(s, <<"merge", i, j, a.time_min, a.time_max, a.update_count,
                                b.time_min, b.time_max, b.update_count>>)
                 EXCEPT !.obj[i].update_count = a.update_count + b.update_count,
                        !.obj[i].refs = a.refs + b.refs,
                        !.obj[i].time_min = Min(a.time_min, b.time_min)]
    IN  Destroy(s1, j)

\* Context.merge
Merge(s, i, j) ==
    LET a == s.obj[i]
        b == s.obj[j]
        s1 == [Note(s, <<"merge", i, j, a.time_min, a.time_max, a.update_count,
                                b.time_min, b.time_max, b.update_count>>)
                 EXCEPT !.obj[i].update_count = a.update_count + b.update_count,
                        !.obj[i].refs = a.refs + b.refs,
                        !.obj[i].time_min = Min(a.time_min, b.time_min),
                        !.obj[i].time_max = Max(a.time_max, b.time_max)]
    IN  Destroy(s1, j)

\* the loop of Context._mergeIntersect over the bucket as it was at entry
RECURSIVE MergeScan(_, _, _)
MergeScan(s, i, bucket) ==
    IF bucket = <<>> THEN s
    ELSE LET j == Head(bucket)
         IN  IF j = i THEN MergeScan(s, i, Tail(bucket))
             ELSE IF IntersectCtx(s.obj[i], s.obj[j]) # <<>> THEN Merge(s, i, j)
             ELSE MergeScan(s, i, Tail(bucket))

\* Context._mergeIntersect
MergeIntersect(s, i) ==
    LET name == s.obj[i].name
    IN  IF name \notin DOMAIN s.table THEN Raise(s, "KeyError")
        ELSE MergeScan(s, i, s.table[name])

\* Context.checkTimeWindow: [s, v] with v whether the windows intersect
CheckTimeWindow(s, i, ev, update) ==
    LET o == s.obj[i]
        w == IntersectEvent(s, o, ev)
    IN  IF w = <<>> THEN [s |-> s, v |-> FALSE]
        ELSE IF update
             THEN [s |-> [s EXCEPT !.obj[i].time_min = w[1],
                                   !.obj[i].time_max = IF o.time_max # -1 THEN w[2] ELSE @],
                   v |-> TRUE]
             ELSE [s |-> s, v |-> TRUE]

\* dict.update(options): a key of the argument holds a value set of at most one
\* value, the empty set when the key is absent
OptionsUpdate(old, new) ==
    [k \in DOMAIN old |-> IF new[k] = {} THEN old[k] ELSE CHOOSE x \in new[k] : TRUE]

\* Context.setOptions
SetOptions(s, i, options) ==
    LET opts == OptionsUpdate(s.obj[i].options, options)
        s1 == [s EXCEPT !.obj[i].options = opts]
        s2 == TimerSetExpire(s1, i, opts.expire)
    IN  TimerStart(s2, i, FALSE)

\* IDMEF.alert(): the alert leaves for the alerting collaborator, or fails
EmitAlert(s, i) ==
    IF s.alertFails THEN Raise(s, "alert")
    ELSE [Note(s, <<"alert", i>>) EXCEPT !.hist[i].alerts = @ + 1]

\* the contexts of the registry
InTable(s) == {i \in DOMAIN s.obj : \E n \in DOMAIN s.table : InSeq(s.table[n], i)}

\* ctx.destroy() for each of ids, lowest id first
RECURSIVE DestroyEach(_, _)
DestroyEach(s, ids) ==
    IF ids = {} \/ s.exc THEN s
    ELSE LET i == CHOOSE x \in ids : \A y \in ids : x <= y
         IN  DestroyEach(Destroy(s, i), ids \ {i})

\* the rule's alert_on_expire callback, by what it does with the context and,
\* for CbDestroyAll, with every context of the registry
AlertCallback(s, i) ==
    LET s1 == [Note(s, <<"cb", i>>) EXCEPT !.hist[i].fires = @ + 1]
        kind == s.obj[i].options.alert_on_expire
    IN  IF kind = "CbRaise" THEN Raise(s1, "callback")
        ELSE IF kind = "CbDestroy" THEN Destroy(s1, i)
        ELSE IF kind = "CbDestroyAll" THEN DestroyEach(s1, InTable(s1))
        ELSE s1

\* callable(alert_on_expire)
Callable(aoe) == aoe \in {"CbKeep", "CbDestroy", "CbRaise", "CbDestroyAll"}

\* the truth value of alert_on_expire
Truthy(aoe) == aoe # "False"

\* Context._alert without the destroy() that follows alert()
AlertWithoutDestroy(s, i) ==
    LET s0 == Note(s, <<"_alert", i>>)
    IN  IF Callable(s.obj[i].options.alert_on_expire) THEN AlertCallback(s0, i)
        ELSE EmitAlert(s0, i)

\* Context._alert
Alert(s, i) ==
    LET s0 == Note(s, <<"_alert", i>>)
    IN  IF Callable(s.obj[i].options.alert_on_expire) THEN AlertCallback(s0, i)
        ELSE LET s1 == EmitAlert(s0, i)
             IN  IF s1.exc THEN s1 ELSE Destroy(s1, i)

\* Context._timerExpireCallback comparing _update_count, not _update_count + 1,
\* with the threshold
CtxExpireCallbackCountOnly(s, i) ==
    LET o == s.obj[i]
        threshold == o.options.threshold
    IN  IF Truthy(o.options.alert_on_expire)
           /\ (threshold = -1 \/ o.update_count >= threshold)
        THEN Alert(s, i)
        ELSE Destroy(s, i)

\* Context._timerExpireCallback
CtxExpireCallback(s, i) ==
    LET o == s.obj[i]
        threshold == o.options.threshold
    IN  IF Truthy(o.options.alert_on_expire)
           /\ (threshold = -1 \/ o.update_count + 1 >= threshold)
        THEN Alert(s, i)
        ELSE Destroy(s, i)

\* IDMEF.addAlertReference: one more event in the alert record of the context
AddAlertReference(s, i) == [s EXCEPT !.obj[i].refs = @ + 1]

\* Context.update
Update(s, i, options, ev, timer_rst) ==
    LET s0 == [Note(s, <<"update", i>>) EXCEPT !.obj[i].update_count = @ + 1]
        s1 == IF ev.some THEN AddAlertReference(s0, i) ELSE s0
        o == s1.obj[i]
    IN  IF ev.some /\ Truthy(o.options.alert_on_expire) /\ o.update_count >= QueueLimit
        THEN Alert(s1, i)
        ELSE LET s2 == IF timer_rst /\ o.timer_start # None THEN TimerReset(s1, i) ELSE s1
             IN  SetOptions(s2, i, options)

\* the loop of search() over the bucket: [s, v] with v the context found, or None
RECURSIVE SearchScan(_, _, _, _)
SearchScan(s, bucket, ev, update) ==
    IF bucket = <<>> THEN [s |-> s, v |-> None]
    ELSE LET r == CheckTimeWindow(s, Head(bucket), ev, update)
         IN  IF r.v THEN [s |-> r.s, v |-> Head(bucket)]
             ELSE SearchScan(r.s, Tail(bucket), ev, update)

\* search(name, idmef, update)
Search(s, name, ev, update) ==
    LET key == GetNameStr(name)
    IN  IF key \in DOMAIN s.table THEN SearchScan(s, s.table[key], ev, update)
        ELSE [s |-> s, v |-> None]

\* the method the class of the object gives to Timer.check
ExpireCallback(s, i) ==
    LET s1 == Note(s, <<"expire", i>>)
    IN  IF s.obj[i].kind = "ctx" THEN CtxExpireCallback(s1, i)
        ELSE TimerExpireCallback(s1, i)

\* Timer.check without the early return for a timer that is not running
CheckStopped(s, i, now) ==
    LET o == s.obj[i]
        elapsed == now - o.timer_start
        s1 == IF elapsed >= o.timer_expire THEN ExpireCallback(s, i) ELSE s
    IN  IF ~s1.exc /\ s1.obj[i].timer_start # None
        THEN [s |-> s1, some |-> TRUE, v |-> s1.obj[i].timer_expire - elapsed]
        ELSE [s |-> s1, some |-> FALSE, v |-> 0]

\* Timer.check: [s, some, v], the remaining time v when some, None otherwise
Check(s, i, now) ==
    LET o == s.obj[i]
    IN  IF o.timer_start = None THEN [s |-> s, some |-> FALSE, v |-> 0]
        ELSE LET elapsed == now - o.timer_start
                 s1 == IF elapsed >= o.timer_expire THEN ExpireCallback(s, i) ELSE s
             IN  IF ~s1.exc /\ s1.obj[i].timer_start # None
                 THEN [s |-> s1, some |-> TRUE, v |-> s1.obj[i].timer_expire - elapsed]
                 ELSE [s |-> s1, some |-> FALSE, v |-> 0]

\* the loop of wakeup() over _TIMER_LIST, which a callback may append to;
\* need is need_delete
RECURSIVE WakeupScan(_, _, _, _)
WakeupScan(s, k, now, need) ==
    IF k > Len(s.timerList)
    THEN [s EXCEPT !.timerList = IF need THEN Running(@, s.obj) ELSE @,
                   !.lastWakeup = now]
    ELSE LET r == Check(Note(s, <<"check", s.timerList[k]>>), s.timerList[k], now)
         IN  IF r.s.exc THEN r.s
             ELSE IF r.some /\ r.v # 0
                  THEN WakeupScan([r.s EXCEPT !.nextWakeup = Min(r.v, @)], k + 1, now, need)
                  ELSE WakeupScan(r.s, k + 1, now, TRUE)

\* wakeup(now) without the early return
WakeupAlways(s, now) ==
    WakeupScan([s EXCEPT !.nextWakeup = MaxSize], 1, now, FALSE)

\* wakeup(now)
Wakeup(s, now) ==
    IF now - s.lastWakeup < s.nextWakeup THEN Note(s, <<"skip">>)
    ELSE WakeupScan([s EXCEPT !.nextWakeup = MaxSize], 1, now, FALSE)

\* the fields Timer.__init__ and Context.__init__ set before the options
NewContext(name) ==
    [kind |-> "ctx", timer_start |-> None, timer_expire |-> 0, timer_cb |-> "None",
     version |-> FormatVersion,
     options |-> [threshold |-> -1, expire |-> 0, alert_on_expire |-> "False"],
     name |-> GetNameStr(name), update_count |-> 0, refs |-> 0,
     time_min |-> 0, time_max |-> 0]

\* Timer.__init__
NewTimer(expire, cb) ==
    [NewContext(<<>>) EXCEPT !.kind = "timer", !.timer_expire = expire, !.timer_cb = cb]

\* an id no object has
FreeObj == [NewContext(<<>>) EXCEPT !.kind = "free"]

FreeHist ==
    [created |-> FALSE, destroyed |-> FALSE, alerts |-> 0, fires |-> 0,
     argName |-> <<>>, argGroup |-> <<>>]

\* the ids no object has
FreeIds(s) == {i \in DOMAIN s.obj : s.obj[i].kind = "free"}

\* object.__new__: the new object's id; without a free id the call is out of
\* the model's bounds
Allocate(s) == IF FreeIds(s) = {} THEN None ELSE CHOOSE i \in FreeIds(s) : \A j \in FreeIds(s) : i <= j

NewHist(name, group) ==
    [created |-> TRUE, destroyed |-> FALSE, alerts |-> 0, fires |-> 0,
     argName |-> name, argGroup |-> group]

\* Context.__init__ of a new object
ContextInit(s, name, options, ev) ==
    LET i == Allocate(s)
        s1 == [Note(s, <<"new", i>>)
                 EXCEPT !.obj[i] = NewContext(name),
                        !.hist[i] = NewHist(name, IF ev.some THEN ev.group ELSE <<>>)]
        s1a == SetOptions(s1, i, options)
        s2 == IF ev.some THEN AddAlertReference(s1a, i) ELSE s1a
        t == GetTime(s2, ev)
        expire == s2.obj[i].options.expire
        key == s2.obj[i].name
        s3 == [s2 EXCEPT !.obj[i].time_min = t - expire,
                         !.obj[i].time_max = IF expire > 0 THEN t + expire ELSE -1,
                         !.table = IF key \in DOMAIN @
                                   THEN [@ EXCEPT ![key] = Append(@, i)]
                                   ELSE [n \in DOMAIN @ \cup {key} |->
                                            IF n = key THEN <<i>> ELSE @[n]]]
    IN  IF i = None THEN [s |-> [s EXCEPT !.full = TRUE], v |-> None, fresh |-> FALSE]
        ELSE [s |-> MergeIntersect(s3, i), v |-> i, fresh |-> TRUE]

\* Context.__new__ followed by Context.__init__: [s, v, fresh] with v the
\* context returned and fresh whether it was constructed by this call
ContextNew(s, name, options, overwrite, update, ev, timer_rst) ==
    LET lname == IF ev.some /\ ev.group # <<>> THEN Format(name, ev.group) ELSE name
    IN  IF update \/ ~overwrite
        THEN LET r == Search(s, lname, ev, TRUE)
             IN  IF r.v # None
                 THEN IF update
                      THEN LET s1 == Update(r.s, r.v, options, ev, timer_rst)
                           IN  [s |-> IF s1.exc THEN s1 ELSE MergeIntersect(s1, r.v),
                                v |-> r.v, fresh |-> FALSE]
                      ELSE [s |-> r.s, v |-> r.v, fresh |-> FALSE]
                 ELSE ContextInit(r.s, name, options, ev)
        ELSE LET r == Search(s, lname, ev, FALSE)
                 s1 == IF r.v # None THEN Destroy(r.s, r.v) ELSE r.s
             IN  IF s1.exc THEN [s |-> s1, v |-> None, fresh |-> FALSE]
                 ELSE ContextInit(s1, name, options, ev)

\* ------------------------------------------------------------------- load
\* Context.isVersionCompatible
IsVersionCompatible(o) == o.version = FormatVersion

\* the test of load() on a restored context
Loadable(o) == IsVersionCompatible(o) /\ o.options.alert_on_expire # "Dummy"

\* a context as Context.__setstate__ restores it from its saved record
Restored(c) ==
    [NewContext(<<>>) EXCEPT !.name = c.name, !.version = c.version,
                             !.options.alert_on_expire = c.alert_on_expire,
                             !.options.expire = IF c.timer_start # None THEN 1 ELSE 0,
                             !.timer_expire = IF c.timer_start # None THEN 1 ELSE 0,
                             !.timer_start = c.timer_start,
                             !.time_min = 0,
                             !.time_max = IF c.timer_start # None THEN 2 ELSE -1]

\* the keys of the saved dict, in its order
RECURSIVE StoredNames(_)
StoredNames(stored) ==
    IF stored = <<>> THEN <<>>
    ELSE LET rest == StoredNames(Tail(stored))
         IN  IF InSeq(rest, Head(stored).name) THEN rest
             ELSE <<Head(stored).name>> \o rest

\* the ids of the restored contexts saved under name, in their order
RECURSIVE StoredBucket(_, _, _)
StoredBucket(stored, name, k) ==
    IF k > Len(stored) THEN <<>>
    ELSE IF stored[k].name = name THEN <<k>> \o StoredBucket(stored, name, k + 1)
    ELSE StoredBucket(stored, name, k + 1)

\* ContextUnpickler(fd).load() and _CONTEXT_TABLE.update: the restored
\* contexts, those with a _timer_start appended to _TIMER_LIST by
\* Timer.__setstate__
RECURSIVE Unpickle(_, _, _)
Unpickle(s, stored, k) ==
    IF k > Len(stored)
    THEN [s EXCEPT !.table = [n \in DOMAIN @ \cup {c.name : c \in {stored[j] : j \in DOMAIN stored}} |->
                                IF \E j \in DOMAIN stored : stored[j].name = n
                                THEN StoredBucket(stored, n, 1) ELSE @[n]]]
    ELSE Unpickle([s EXCEPT !.obj[k] = Restored(stored[k]),
                            !.hist[k] = NewHist(stored[k].name, <<>>),
                            !.timerList = IF stored[k].timer_start # None
                                          THEN Append(@, k) ELSE @],
                  stored, k + 1)

\* for ctx in ctxlist[:]
RECURSIVE LoadBucket(_, _)
LoadBucket(s, ids) ==
    IF ids = <<>> \/ s.exc THEN s
    ELSE LoadBucket(IF Loadable(s.obj[Head(ids)]) THEN s ELSE Destroy(s, Head(ids)),
                    Tail(ids))

\* for ctxlist in _CONTEXT_TABLE.values(): where values() is a view of the
\* dict, the step after a destroy() popped a name raises RuntimeError
RECURSIVE LoadValues(_, _, _)
LoadValues(s, names, view) ==
    IF names = <<>> THEN s
    ELSE LET s1 == LoadBucket(s, s.table[Head(names)])
         IN  IF s1.exc THEN s1
             ELSE IF view /\ DOMAIN s1.table # DOMAIN s.table
                  THEN Raise(s1, "RuntimeError")
                  ELSE LoadValues(s1, Tail(names), view)

\* load(profile) of the saved registry stored; truncated: the read ends in
\* EOFError
Load(s, stored, truncated, view) ==
    IF truncated THEN s
    ELSE LoadValues(Unpickle(s, stored, 1), StoredNames(stored), view)

\* ------------------------------------------------------------ the machine
\* the state a call starts from
Entry(alertFails) ==
    [clock |-> clock, obj |-> obj, table |-> table, timerList |-> timerList,
     nextWakeup |-> nextWakeup, lastWakeup |-> lastWakeup, hist |-> hist,
     log |-> <<>>, exc |-> FALSE, full |-> FALSE, alertFails |-> alertFails]

Ids == {i \in DOMAIN obj : obj[i].kind # "free"}

ContextIds == {i \in Ids : obj[i].kind = "ctx"}

TimerIds == {i \in Ids : obj[i].kind = "timer"}

\* the contexts of the registry
Registered == {i \in ContextIds : \E n \in DOMAIN table : InSeq(table[n], i)}

\* the timers of _TIMER_LIST that are armed and whose time has come at now
Due(now) ==
    {i \in Ids : /\ InSeq(timerList, i)
                 /\ obj[i].timer_start # None
                 /\ now - obj[i].timer_start >= obj[i].timer_expire}

NoEvent == [some |-> FALSE, time |-> 0, group |-> <<>>]

\* the idmef arguments that are events, each with its time and grouping value
EventsOf(Times, Groups) == [some : {TRUE}, time : Times, group : Groups]

\* the options arguments: each key absent or with one of the values
OptionsOf(Expires, Thresholds, AlertOnExpires) ==
    [expire : {{}} \cup {{x} : x \in Expires},
     threshold : {{}} \cup {{x} : x \in Thresholds},
     alert_on_expire : {{}} \cup {{x} : x \in AlertOnExpires}]

\* what is remembered of the last call: the operation, its name, update and
\* idmef arguments, the registry load() read, the object it returned, whether the object was
\* constructed by it, whether it raised, whether wakeup returned early and
\* the timers that were due when it was called
NoCall == [op |-> "none", name |-> <<>>, update |-> FALSE, ev |-> NoEvent,
           stored |-> <<>>,
           v |-> None, fresh |-> FALSE, raised |-> FALSE,
           skipped |-> FALSE, due |-> {}]

\* A destroyed context is referenced by nothing but, until the next scan
\* prunes it, _TIMER_LIST.
Unreferenced(s, i) ==
    /\ s.obj[i].kind = "ctx"
    /\ s.hist[i].destroyed
    /\ \A n \in DOMAIN s.table : ~InSeq(s.table[n], i)

\* what is left to read of a destroyed context that only _TIMER_LIST holds:
\* its _timer_start, in Timer.check and in the filter of wakeup
Remains(o) == [FreeObj EXCEPT !.kind = "ctx", !.timer_start = o.timer_start]

RemainsHist(h) == [FreeHist EXCEPT !.created = TRUE, !.destroyed = TRUE, !.alerts = h.alerts]

\* When a call returns the interpreter frees the objects nothing references.
Collected(s, i) ==
    IF ~Unreferenced(s, i) THEN s.obj[i]
    ELSE IF InSeq(s.timerList, i) THEN Remains(s.obj[i])
    ELSE FreeObj

CollectedHist(s, i) ==
    IF ~Unreferenced(s, i) THEN s.hist[i]
    ELSE IF InSeq(s.timerList, i) THEN RemainsHist(s.hist[i])
    ELSE FreeHist

\* the call returns: its state becomes the program's
Commit(result, c) ==
    \E s \in {result} :
    /\ ~s.full
    /\ Len(s.timerList) <= MaxList
    /\ \A i \in DOMAIN s.obj : s.hist[i].fires <= MaxFires
    /\ obj' = [i \in DOMAIN s.obj |-> Collected(s, i)]
    /\ table' = s.table
    /\ timerList' = s.timerList
    /\ nextWakeup' = s.nextWakeup
    /\ lastWakeup' = s.lastWakeup
    /\ hist' = [i \in DOMAIN s.obj |-> CollectedHist(s, i)]
    /\ log' = s.log
    /\ call' = [c EXCEPT !.raised = s.exc]
    /\ UNCHANGED <<clock, memo>>

InitOf(Objs) ==
    /\ clock = 1
    /\ obj = [i \in 1..Objs |-> FreeObj]
    /\ table = <<>>
    /\ timerList = <<>>
    /\ nextWakeup = 0
    /\ lastWakeup = 0
    /\ hist = [i \in 1..Objs |-> FreeHist]
    /\ log = <<>>
    /\ call = NoCall
    /\ memo = NoMemo

\* time passes
Tick(Limit) ==
    /\ clock < Limit
    /\ clock' = clock + 1
    /\ log' = <<>>
    /\ call' = [NoCall EXCEPT !.op = "tick"]
    /\ UNCHANGED <<obj, table, timerList, nextWakeup, lastWakeup, hist, memo>>

\* the host loop calls wakeup(time.time())
DoWakeup ==
    \E alertFails \in BOOLEAN :
        LET s == Wakeup(Entry(alertFails), clock)
        IN  Commit(s, [NoCall EXCEPT !.op = "wakeup", !.due = Due(clock),
                                     !.skipped = (s.log = <<<<"skip">>>>)])

\* a rule calls Context(name, options, overwrite, update, idmef, timer_rst)
DoContext(Names, Options, Evs, Live, Updates) ==
    \E name \in Names, options \in Options, overwrite \in BOOLEAN,
       update \in BOOLEAN, ev \in Evs, timer_rst \in BOOLEAN :
        /\ timer_rst => update
        /\ update => overwrite
        /\ LET r == ContextNew(Entry(FALSE), name, options, overwrite, update, ev, timer_rst)
           IN  /\ Commit(r.s, [NoCall EXCEPT !.op = "context", !.name = name,
                                            !.update = update, !.ev = ev,
                                            !.v = r.v, !.fresh = r.fresh])
               /\ Cardinality(Registered') <= Live
               /\ \A i \in DOMAIN obj : obj'[i].update_count <= Updates
               /\ \A i \in DOMAIN obj : obj'[i].refs <= Updates + Live

\* a rule calls ctx.update(options, idmef, timer_rst) on a context of the registry
DoUpdate(Options, Evs, Updates) ==
    \E i \in Registered, options \in Options, ev \in Evs, timer_rst \in BOOLEAN :
        /\ obj[i].update_count < Updates
        /\ Commit(Update(Entry(FALSE), i, options, ev, timer_rst),
               [NoCall EXCEPT !.op = "update", !.v = i])

\* a rule calls ctx.destroy() on a context of the registry
DoDestroy ==
    \E i \in Registered :
        Commit(Destroy(Entry(FALSE), i), [NoCall EXCEPT !.op = "destroy", !.v = i])

\* a rule constructs Timer(expire, cb_func)
DoTimer(Expires, Callbacks) ==
    \E expire \in Expires, cb \in Callbacks :
        LET s == Entry(FALSE)
            i == Allocate(s)
        IN  /\ i # None
            /\ Cardinality(TimerIds) < MaxTimers
            /\ Commit([s EXCEPT !.obj[i] = NewTimer(expire, cb),
                                !.hist[i] = NewHist(<<>>, <<>>)],
                      [NoCall EXCEPT !.op = "timer", !.v = i, !.fresh = TRUE])

\* a rule calls start(), stop() or reset() on its Timer
DoTimerStart ==
    \E i \in TimerIds :
        Commit(TimerStart(Entry(FALSE), i, FALSE), [NoCall EXCEPT !.op = "start", !.v = i])

DoTimerStop ==
    \E i \in TimerIds :
        Commit(TimerStop(Entry(FALSE), i), [NoCall EXCEPT !.op = "stop", !.v = i])

DoTimerReset ==
    \E i \in TimerIds :
        Commit(TimerReset(Entry(FALSE), i), [NoCall EXCEPT !.op = "reset", !.v = i])

\* ------------------------------------------------- the scheduler at work
\* Rules that keep one context name, take the time of the call for the
\* event's and hand callbacks of their own to their contexts.
SchedOptions == OptionsOf(1..MaxExpire, {}, {"CbKeep", "CbRaise"})

NextSched ==
    \/ Tick(MaxTime)
    \/ DoWakeup
    \/ DoContext({<<"a">>}, SchedOptions, {NoEvent}, SchedLive, SchedUpdates)
    \/ DoDestroy

SpecSched == InitOf(SchedObjs) /\ [][NextSched]_vars

\* ----------------------------------------------------- the alerts at work
\* Rules that keep one context name and take the time of the call for the
\* event's, with a threshold, and the default alert or a callback that
\* destroys the context.
AlertOptions == OptionsOf({1}, {2}, {"True", "CbDestroy"})

NextAlert ==
    \/ Tick(MaxTime)
    \/ DoWakeup
    \/ DoContext({<<"a">>}, AlertOptions, {NoEvent}, SchedLive, SchedUpdates)
    \/ DoUpdate(AlertOptions, {NoEvent}, SchedUpdates)
    \/ DoDestroy

SpecAlert == InitOf(SchedObjs) /\ [][NextAlert]_vars

\* ------------------------------------------------------ plain Timers at work
NextTimer ==
    \/ Tick(MaxTime)
    \/ DoWakeup
    \/ DoTimer(0..MaxExpire, {"Noop", "Raise", "Start", "Reset"})
    \/ DoTimerStart
    \/ DoTimerStop
    \/ DoTimerReset

SpecTimer == InitOf(MaxTimers) /\ [][NextTimer]_vars

\* --------------------------------------------------- the registry at work
\* A rule that names its contexts "a" and passes events of three times: the
\* windows of the first and the last are disjoint and the second's meets both.
RegOptions == OptionsOf({1}, {}, {})

RegEvents == EventsOf({1, 2, 4}, {<<>>})

NextReg ==
    \/ Tick(RegTime)
    \/ DoWakeup
    \/ DoContext({<<"a">>}, RegOptions, RegEvents, RegLive, RegUpdates)
    \/ DoDestroy

SpecReg == InitOf(RegObjs) /\ [][NextReg]_vars

\* ------------------------------------------------------ two names at work
\* Two rules.  The first names its contexts "a" and passes events of two
\* times with disjoint windows.  The second names its contexts "b" and leaves
\* the options alone.
NoOptions == OptionsOf({}, {}, {})

NextNames ==
    \/ Tick(RegTime)
    \/ DoWakeup
    \/ DoContext({<<"a">>}, RegOptions, EventsOf({1, 4}, {<<>>}), RegLive, RegUpdates)
    \/ DoContext({<<"b">>}, NoOptions, EventsOf({1}, {<<>>}), RegLive, RegUpdates)
    \/ DoDestroy

SpecNames == InitOf(RegObjs) /\ [][NextNames]_vars

\* ------------------------------------------------ the grouping value at work
\* A rule whose events carry a grouping value, or none.
GroupEvents == EventsOf({1, 4}, {<<>>, <<"v">>})

NextGroup ==
    \/ DoWakeup
    \/ DoContext({<<"a">>}, RegOptions, GroupEvents, RegLive, RegUpdates)
    \/ DoDestroy

SpecGroup == InitOf(RegObjs) /\ [][NextGroup]_vars

\* ------------------------------------------------ wide windows at work
\* Two rules that name their contexts alike.  The events of the first are far
\* apart and its contexts expire early; the event of the second lies between
\* them and its contexts expire early or late: the window of a late one
\* reaches across the windows of two contexts of the first rule.
WideOptions == OptionsOf({1, 3}, {}, {})

NextWide ==
    \/ DoWakeup
    \/ DoContext({<<"a">>}, RegOptions, EventsOf({1, 7}, {<<>>}), RegLive, RegUpdates)
    \/ DoContext({<<"a">>}, WideOptions, EventsOf({4}, {<<>>}), RegLive, RegUpdates)
    \/ DoDestroy

SpecWide == InitOf(RegObjs) /\ [][NextWide]_vars

\* ------------------------------------------------ _intersect on its own
\* the windows a context can have: the upper edge is a bound at or above the
\* lower edge, or -1
Windows ==
    {w \in [time_min : 0..MaxWindow, time_max : -1..MaxWindow] :
        w.time_max = -1 \/ w.time_max >= w.time_min}

\* a context of name "a" with the window w
ContextOf(w) ==
    [NewContext(<<"a">>) EXCEPT !.time_min = w.time_min, !.time_max = w.time_max]

\* two contexts of one bucket, with any two windows
InitIntersect ==
    /\ clock = 1
    /\ \E a \in Windows, b \in Windows : obj = <<ContextOf(a), ContextOf(b)>>
    /\ table = [n \in {GetNameStr(<<"a">>)} |-> <<1, 2>>]
    /\ timerList = <<>>
    /\ nextWakeup = 0
    /\ lastWakeup = 0
    /\ hist = [i \in 1..2 |-> NewHist(<<"a">>, <<>>)]
    /\ log = <<>>
    /\ call = NoCall
    /\ memo = NoMemo

\* each of the two is asked whether it intersects the other
DoIntersect ==
    /\ call.op = "none"
    /\ log' = << <<"intersect", 1, 2, IntersectCtx(obj[1], obj[2])>>,
                 <<"intersect", 2, 1, IntersectCtx(obj[2], obj[1])>> >>
    /\ call' = [NoCall EXCEPT !.op = "intersect"]
    /\ UNCHANGED <<clock, obj, table, timerList, nextWakeup, lastWakeup, hist, memo>>

NextIntersect == DoIntersect

SpecIntersect == InitIntersect /\ [][NextIntersect]_vars

\* ------------------------------------------------ the expire option at work
\* A rule that passes expire explicitly, 0 included, when it creates and when
\* it updates its context.
ZeroOptions == OptionsOf({0, 1}, {}, {})

NextZero ==
    \/ Tick(RegTime)
    \/ DoWakeup
    \/ DoContext({<<"a">>}, ZeroOptions, {NoEvent}, SchedLive, SchedUpdates)
    \/ DoDestroy

SpecZero == InitOf(SchedObjs) /\ [][NextZero]_vars

\* ---------------------------------------------------- the hard cap at work
\* A rule that creates its context from an event and updates it with one
\* event after the other, with the default alert or none.
CapOptions == OptionsOf({}, {}, {"True"})

NextCap == DoContext({<<"a">>}, CapOptions, EventsOf({1}, {<<>>}), SchedLive, CapUpdates)

SpecCap == InitOf(SchedObjs) /\ [][NextCap]_vars

\* ------------------------------------------------------------ load at work
\* the saved records of a context: its name, its format version, its
\* alert_on_expire or the placeholder the unpickler put for it, and its
\* _timer_start
StoredContexts ==
    [name : {<<"a">>, <<"b">>}, version : {FormatVersion, OldVersion},
     alert_on_expire : {"False", "Dummy"}, timer_start : {None, 1}]

\* the saved registries: the contexts of a name follow one another
StoredRegistries ==
    {st \in UNION {[1..n -> StoredContexts] : n \in 1..MaxStored} :
        \A j, k, l \in DOMAIN st :
            (j < k /\ k < l /\ st[j].name = st[l].name) => st[k].name = st[j].name}

\* the host calls load(profile) when it starts
DoLoad ==
    \E stored \in StoredRegistries, truncated \in BOOLEAN, view \in BOOLEAN :
        /\ call.op = "none"
        /\ Commit(Load(Entry(FALSE), stored, truncated, view),
                  [NoCall EXCEPT !.op = "load",
                                 !.stored = IF truncated THEN <<>> ELSE stored])

NextLoad ==
    \/ DoLoad
    \/ Tick(RegTime)
    \/ DoWakeup

SpecLoad == InitOf(MaxStored) /\ [][NextLoad]_vars

\* ------------------------------------------------------- one scan at work
\* Two rules, each with a context that expires; the alert_on_expire callback
\* of a rule may destroy the contexts of the registry.
ScanOptions == {o \in OptionsOf({1}, {}, {"True", "CbDestroyAll"}) : o.expire # {}}

NextScan ==
    \/ Tick(RegTime)
    \/ DoWakeup
    \/ DoContext({<<"a">>, <<"b">>}, ScanOptions, {NoEvent}, RegLive, ScanUpdates)

SpecScan == InitOf(RegObjs) /\ [][NextScan]_vars

\* ------------------------------------------------------ getName on its own
\* the characters of a name: a letter, the underscore and the backslash
Chars == {"a", "_", "\\"}

StrsUpTo(n) == UNION {[1..k -> Chars] : k \in 0..n}

\* a rule holds a two-component name and a one-str name
InitName ==
    /\ clock = 1
    /\ obj = <<>>
    /\ table = <<>>
    /\ timerList = <<>>
    /\ nextWakeup = 0
    /\ lastWakeup = 0
    /\ hist = <<>>
    /\ \E c1 \in StrsUpTo(MaxComponent), c2 \in StrsUpTo(MaxComponent), str \in StrsUpTo(MaxStr) :
           log = << <<"arg", <<c1, c2>> >>, <<"arg", str>> >>
    /\ call = NoCall
    /\ memo = NoMemo

\* getName of each of the two
DoGetName ==
    /\ call.op = "none"
    /\ log' = << log[1], log[2], <<"getName", GetNameSeq(log[1][2])>>,
                 <<"getName", GetNameStr(log[2][2])>> >>
    /\ call' = [NoCall EXCEPT !.op = "getName"]
    /\ UNCHANGED <<clock, obj, table, timerList, nextWakeup, lastWakeup, hist, memo>>

NextName == DoGetName

SpecName == InitName /\ [][NextName]_vars

\* ------------------------------------------- utils/cache.py: memoize_property
\* _Cache.__init__
NewCache == [cache |-> <<>>, hits |-> 0, misses |-> 0]

\* _Cache._set: the dict with value under key
CacheSet(c, key, value) ==
    [c EXCEPT !.cache = [k \in DOMAIN @ \cup {key} |-> IF k = key THEN value ELSE @[k]]]

\* _memoize._setup_cache: the object with its cache attribute
SetupCache(m) == IF m.has THEN m ELSE [m EXCEPT !.has = TRUE, !.c = NewCache]

\* the decorated method: it computes the property from the attribute the
\* setter function stores
CachedFunc(m) == m.attr

\* _Cache._get(obj): key = (args, tuple(kwargs.items())) with args = (obj,)
CacheGet(m, o) ==
    LET key == <<<<o>>, <<>>>>
    IN  IF key \in DOMAIN m.c.cache
        THEN [m EXCEPT !.c.hits = @ + 1, !.ret = m.c.cache[key]]
        ELSE LET value == CachedFunc(m)
             IN  [m EXCEPT !.c = CacheSet([@ EXCEPT !.misses = @ + 1], key, value),
                           !.ret = value]

\* _memoize_property.__get__: _memoize.__call__(obj) with no other argument
PropertyGet(m, o) == CacheGet(SetupCache(m), o)

\* _memoize_property.__set__
PropertySet(m, o, value) ==
    IF ~m.set_func THEN m
    ELSE LET m1 == SetupCache([m EXCEPT !.attr = value])
         IN  [m1 EXCEPT !.c = CacheSet(@, <<o>>, value)]

\* an object whose class has a memoize_property over one attribute, with or
\* without a setter; assigned is the value last assigned, None before
InitCache ==
    /\ clock = 1
    /\ obj = <<>>
    /\ table = <<>>
    /\ timerList = <<>>
    /\ nextWakeup = 0
    /\ lastWakeup = 0
    /\ hist = <<>>
    /\ log = <<>>
    /\ call = NoCall
    /\ \E set_func \in BOOLEAN, attr \in 1..MaxValue :
           memo = [set_func |-> set_func, attr |-> attr, has |-> FALSE, c |-> NewCache,
                   ret |-> None, assigned |-> None]

\* value = obj.prop
DoRead ==
    /\ memo.c.hits + memo.c.misses < MaxReads
    /\ memo' = PropertyGet(memo, 1)
    /\ call' = [NoCall EXCEPT !.op = "read"]
    /\ UNCHANGED <<clock, obj, table, timerList, nextWakeup, lastWakeup, hist, log>>

\* obj.prop = value
DoAssign ==
    \E value \in 1..MaxValue :
        /\ memo' = [PropertySet(memo, 1, value) EXCEPT
                       !.assigned = IF memo.set_func THEN value ELSE @]
        /\ call' = [NoCall EXCEPT !.op = "assign"]
        /\ UNCHANGED <<clock, obj, table, timerList, nextWakeup, lastWakeup, hist, log>>

NextCache ==
    \/ DoRead
    \/ DoAssign

SpecCache == InitCache /\ [][NextCache]_vars

\* ================================================================ properties
\* the entries of the last call's log about object i
Logged(what, i) == \E k \in DOMAIN log : log[k] = <<what, i>>

\* C1: wakeup(now) never returns early while a timer of the active set is
\* armed and due, and the expiry path of every such timer runs in that call.
\* Stated for the timers whose callback has not run yet since they were armed.
C1_DueNotSkipped ==
    call.op = "wakeup" =>
        \A i \in call.due :
            IF call.skipped THEN hist[i].fires > 0 ELSE Logged("expire", i)

\* C5: the expiry callback of an armed timer runs at most once for one
\* arming, and a timer whose callback has run and has not re-armed it is not
\* running.
C5_FiresOnce ==
    \A i \in Ids :
        /\ hist[i].fires <= 1
        /\ (Logged("cb", i) /\ obj[i].kind = "ctx" /\ ~call.raised)
               => obj[i].timer_start = None

\* C6: a failure of an expiry callback never leaves wakeup, and the scan ends
\* with lastWakeup = now.
C6_FailureCaught ==
    (call.op = "wakeup" /\ ~call.skipped) => (~call.raised /\ lastWakeup = clock)

\* C3: the default alert of a context is emitted at most once, and when the
\* call that emitted it returns the context is in no bucket of the registry
\* and its timer is stopped.
C3_AlertOnce ==
    /\ \A i \in DOMAIN obj : hist[i].alerts <= 1
    /\ \A k \in DOMAIN log :
           log[k][1] = "alert" =>
               /\ \A m \in DOMAIN log : log[m] = log[k] => m = k
               /\ log[k][2] \notin Registered
               /\ obj[log[k][2]].timer_start = None

\* a wakeup whose scan emitted the default alert of a context
C3_AlertEmitted ==
    /\ call.op = "wakeup"
    /\ \E i \in DOMAIN obj : Logged("expire", i) /\ Logged("alert", i)

\* whether the last call's log of the step has an entry about object i
LoggedNext(what, i) == \E k \in DOMAIN log' : log'[k] = <<what, i>>

\* C4: when the timer of a context expires, _alert is entered if and only if
\* alert_on_expire is enabled and the threshold is -1 or met by
\* update_count + 1; otherwise the context leaves the registry and neither
\* an alert nor a callback is issued for it.
C4_AlertPathIff ==
    [][call'.op = "wakeup" =>
          \A i \in ContextIds :
              LoggedNext("expire", i) =>
                  LET o == obj[i]
                      met == /\ o.options.alert_on_expire # "False"
                             /\ \/ o.options.threshold = -1
                                \/ o.update_count + 1 >= o.options.threshold
                  IN  /\ met <=> LoggedNext("_alert", i)
                      /\ ~met => /\ i \notin Registered'
                                 /\ ~LoggedNext("alert", i)
                                 /\ ~LoggedNext("cb", i)]_vars

\* a wakeup whose scan destroyed an expired context without entering _alert
C4_SilentDestroy ==
    /\ call.op = "wakeup"
    /\ \E i \in DOMAIN obj :
           Logged("expire", i) /\ ~Logged("_alert", i) /\ Logged("destroy", i)

\* C2: _intersect is symmetric: of two windows of one bucket, the first
\* reports an intersection with the second if and only if the second reports
\* one with the first.
C2_Symmetric ==
    call.op = "intersect" => ((log[1][4] # <<>>) <=> (log[2][4] # <<>>))

\* C7: after merge(other) of two contexts of one bucket with bounded windows,
\* the survivor is in the registry with the lower of the two time_min, the
\* higher of the two time_max and the sum of the two update counts, and other
\* is in no bucket with its timer stopped.
C7_MergeBounded ==
    \A k \in DOMAIN log :
        LET m == log[k]
        IN  (m[1] = "merge" /\ m[5] # -1 /\ m[8] # -1) =>
                /\ obj[m[2]].time_min = (IF m[4] <= m[7] THEN m[4] ELSE m[7])
                /\ obj[m[2]].time_max = (IF m[5] >= m[8] THEN m[5] ELSE m[8])
                /\ obj[m[2]].update_count = m[6] + m[9]
                /\ m[2] \in Registered
                /\ m[3] \notin Registered
                /\ obj[m[3]].timer_start = None

\* a call merged two bounded windows none of which holds the other, of
\* contexts one of which had been updated
C7_MergedTwoBounded ==
    \E k \in DOMAIN log :
        LET m == log[k]
        IN  /\ m[1] = "merge" /\ m[5] # -1 /\ m[8] # -1
            /\ m[4] < m[7] /\ m[5] < m[8]
            /\ m[6] + m[9] > 0

\* C8: after any call, two distinct contexts of one bucket have windows that
\* do not intersect, whichever of the two is asked.
C8_DisjointWindows ==
    \A n \in DOMAIN table :
        \A k1, k2 \in DOMAIN table[n] :
            k1 # k2 => IntersectCtx(obj[table[n][k1]], obj[table[n][k2]]) = <<>>

\* the number of places of the registry that hold context i
Places(i) ==
    Cardinality({p \in UNION {{<<n, k>> : k \in DOMAIN table[n]} : n \in DOMAIN table} :
                    table[p[1]][p[2]] = i})

\* C9: a context created and not destroyed is in the registry exactly once,
\* in the bucket of its own name; a destroyed context is in no bucket; no
\* name of the registry maps to an empty list.
C9_RegistryExact ==
    /\ \A i \in ContextIds :
           IF hist[i].destroyed THEN Places(i) = 0
           ELSE /\ Places(i) = 1
                /\ obj[i].name \in DOMAIN table
                /\ InSeq(table[obj[i].name], i)
    /\ \A n \in DOMAIN table : table[n] # <<>>

\* a destroy left its context, destroyed, in _TIMER_LIST while a context of
\* the other name is in the registry
C9_DestroyedAndLive ==
    /\ call.op = "destroy"
    /\ hist[call.v].destroyed
    /\ InSeq(timerList, call.v)
    /\ \E j \in Registered : obj[j].name = <<"b">>

\* C10: Context(name, update=True, idmef) for an event whose grouping value
\* and name are those a context of the registry was created with, and whose
\* window intersects that context's, returns such a context, updated, and
\* adds no context to the registry.
C10_FindsGrouped ==
    [][(call'.op = "context" /\ call'.update /\ call'.ev.some) =>
          LET same == {i \in Registered :
                          /\ hist[i].argName = call'.name
                          /\ hist[i].argGroup = call'.ev.group
                          /\ IntersectEvent(Entry(FALSE), obj[i], call'.ev) # <<>>}
          IN  same # {} =>
                  /\ call'.v \in same
                  /\ ~call'.fresh
                  /\ obj'[call'.v].update_count >= obj[call'.v].update_count + 1
                  /\ Registered' \subseteq Registered]_vars

\* C11: a timer whose _timer_expire is 0 is not running, so that neither
\* check nor wakeup can invoke its expiry callback.
C11_ZeroNeverRuns ==
    \A i \in Ids : obj[i].timer_expire = 0 => obj[i].timer_start = None

\* C12: an update with an event that brings the events accumulated by a
\* context with alert_on_expire enabled to the hard cap forces the alert path:
\* the context such an update leaves in the registry holds fewer events than
\* the cap.
C12_CapForcesAlert ==
    (call.op = "context" /\ call.update /\ call.ev.some /\ call.v \in Registered) =>
        (Truthy(obj[call.v].options.alert_on_expire) => obj[call.v].refs < QueueLimit)

\* C13: wakeup(now) with now - _last_wakeup < _next_wakeup checks no timer and
\* leaves _last_wakeup, _next_wakeup, _TIMER_LIST, the registry and every
\* object as they were.
C13_SkipChangesNothing ==
    [][(call'.op = "wakeup" /\ clock - lastWakeup < nextWakeup) =>
          /\ \A k \in DOMAIN log' : log'[k][1] # "check"
          /\ UNCHANGED <<lastWakeup, nextWakeup, timerList, table, obj>>]_vars

\* a wakeup returned early while a running timer was in _TIMER_LIST
C13_SkippedWithTimer ==
    /\ call.op = "wakeup"
    /\ call.skipped
    /\ \E k \in DOMAIN timerList : obj[timerList[k]].timer_start # None

\* C14: load() of a saved registry does not fail and leaves in the registry
\* exactly the restored contexts whose version is the current one and whose
\* alert_on_expire is not the placeholder; the others are in no bucket, their
\* timers stopped.
C14_LoadKeepsLoadable ==
    (call.op = "load" /\ call.stored # <<>>) =>
        /\ ~call.raised
        /\ \A k \in DOMAIN call.stored :
               IF Loadable(Restored(call.stored[k]))
               THEN k \in Registered /\ InSeq(table[call.stored[k].name], k)
               ELSE k \notin Registered /\ obj[k].timer_start = None

\* C15: the key getName makes of a sequence of two components differs from
\* the key it makes of any single str.
C15_NoCollision ==
    call.op = "getName" => log[3][2] # log[4][2]

\* C16: every context of the registry whose _time_max is not -1 has
\* _time_min <= _time_max.
C16_WindowOrdered ==
    \A i \in Registered :
        obj[i].time_max # -1 => obj[i].time_min <= obj[i].time_max

\* a context without upper edge and one with an upper edge were merged, and
\* the survivor has an upper edge
C16_MergedMixed ==
    \E k \in DOMAIN log :
        /\ log[k][1] = "merge"
        /\ (log[k][5] = -1) # (log[k][8] = -1)
        /\ log[k][2] \in Registered
        /\ obj[log[k][2]].time_max # -1

\* C17: when the survivor or the merged-in context of a merge had no upper
\* edge (_time_max = -1), the survivor has no upper edge after the merge.
C17_MergeKeepsUnbounded ==
    \A k \in DOMAIN log :
        (/\ log[k][1] = "merge"
         /\ log[k][5] = -1 \/ log[k][8] = -1
         /\ log[k][2] \in Registered) => obj[log[k][2]].time_max = -1

\* C18: _TIMER_LIST holds each timer at most once.
C18_ListedOnce ==
    \A i \in DOMAIN obj : Count(timerList, i) <= 1

\* C19: a call of Context(...) that constructs a new context merges nothing
\* into it.
C19_NoMergeOnInit ==
    (call.op = "context" /\ call.fresh) =>
        \A k \in DOMAIN log : log[k][1] # "merge"

\* the timers checked by the call that leads to the next state, in the order
\* of their checks
RECURSIVE ChecksOf(_)
ChecksOf(entries) ==
    IF entries = <<>> THEN <<>>
    ELSE IF Head(entries)[1] = "check" THEN <<Head(entries)[2]>> \o ChecksOf(Tail(entries))
    ELSE ChecksOf(Tail(entries))

\* C20: a wakeup(now) that scans checks the timers in the order of
\* _TIMER_LIST, all of them unless the call raises; after a context was
\* destroyed in the scan, nothing in the scan expires it, alerts for it or
\* calls its callback, and it is out of the registry when the call returns.
C20_ScanInOrder ==
    [][(call'.op = "wakeup" /\ ~call'.skipped) =>
          LET checks == ChecksOf(log')
          IN  /\ \A k \in DOMAIN checks : k <= Len(timerList) => checks[k] = timerList[k]
              /\ ~call'.raised => Len(checks) >= Len(timerList)
              /\ \A p, q \in DOMAIN log' :
                     (p < q /\ log'[p][1] = "destroy") =>
                         ~(/\ log'[q][1] \in {"expire", "_alert", "alert", "cb"}
                           /\ log'[q][2] = log'[p][2])
              /\ \A p \in DOMAIN log' :
                     log'[p][1] = "destroy" => log'[p][2] \notin Registered']_vars

\* a scan in which the callback of one context destroyed another context whose
\* timer was due and was checked later in the scan
C20_DestroyedThenChecked ==
    /\ call.op = "wakeup" /\ ~call.skipped
    /\ \E p, q, r \in DOMAIN log :
           /\ p < q /\ q < r
           /\ log[p][1] = "cb"
           /\ log[q][1] = "destroy" /\ log[q][2] # log[p][2]
           /\ log[q][2] \in call.due
           /\ log[r][1] = "check" /\ log[r][2] = log[q][2]

\* the remaining times, _timer_expire minus elapsed at the clock, of the
\* running timers of _TIMER_LIST
Remaining ==
    {obj[timerList[k]].timer_expire - (clock - obj[timerList[k]].timer_start) :
        k \in {j \in DOMAIN timerList : obj[timerList[j]].timer_start # None}}

\* C21: after a wakeup(now) that scanned and returned, _last_wakeup is now,
\* _TIMER_LIST holds no timer that is not running, and _next_wakeup is the
\* least remaining time of the running timers, sys.maxsize when there is none.
C21_ScanLeavesSchedule ==
    (call.op = "wakeup" /\ ~call.skipped /\ ~call.raised) =>
        /\ lastWakeup = clock
        /\ \A k \in DOMAIN timerList : obj[timerList[k]].timer_start # None
        /\ nextWakeup = IF Remaining = {} THEN MaxSize
                        ELSE CHOOSE x \in Remaining : \A y \in Remaining : x <= y

\* C22: when Context(..., update=True) finds a context whose update() reaches
\* the cap and alerts and destroys it, the call does not raise, nothing is
\* merged into the destroyed context, and it is out of the registry.
C22_CapDestroyIsLast ==
    (call.op = "context" /\ call.update /\ ~call.fresh /\ Logged("_alert", call.v)) =>
        /\ ~call.raised
        /\ \A k \in DOMAIN log : log[k][1] = "merge" => log[k][2] # call.v
        /\ call.v \notin Registered

\* C23: every timer that is running with a positive _timer_expire is in
\* _TIMER_LIST.
C23_RunningIsListed ==
    \A i \in Ids :
        (obj[i].timer_start # None /\ obj[i].timer_expire > 0) => InSeq(timerList, i)

\* C24: a read of a memoize_property that has a setter returns the value last
\* assigned to it.
C24_ReadsLastAssigned ==
    (call.op = "read" /\ memo.set_func /\ memo.assigned # None) =>
        memo.ret = memo.assigned

====
